---- MODULE Spec2Model ----
(***************************************************************************)
(* Warehouse synchronization engine of the RPA automation platform:        *)
(* BigQueryClient (lazy initialization, streamInsert, batchInsert, query,  *)
(* createReadOnlyUser) and DimensionSync (syncBankingNetworks, upsertJob,  *)
(* generateDateDimension, getWeekNumber, syncAll).                         *)
(*                                                                         *)
(* The warehouse and the credential vault are external collaborators: the  *)
(* outcome of each request to them is a nondeterministic choice.  Every    *)
(* `await` of the source is a step boundary; code between two awaits is    *)
(* one atomic step (single-threaded event loop).                           *)
(***************************************************************************)
EXTENDS Integers, Sequences, FiniteSets, TLC

\* ------------------------------------------------------------------ bounds
MaxRows == 3            \* longest row list handed to batchInsert by a caller
MaxBatchSize == 3       \* largest batchSize argument tried (0 is tried too)
MaxEnvRetries == 2      \* largest explicit BQ_MAX_RETRIES value tried
MaxInits == 2           \* credential resolutions attempted in one behaviour
MaxGrants == 2          \* createReadOnlyUser calls in one behaviour
MaxUpserts == 3         \* upsertJob calls in one behaviour
MaxLoopPasses == 8192   \* passes of the date loop unrolled (the loop must end sooner)
MaxNetworks == 2        \* entries of the banking network catalog
MaxSyncCalls == 2       \* syncBankingNetworks calls in one behaviour
MaxLoadCalls == 1       \* loadFromFile invocations of the outside caller
MaxStreamCalls == 2     \* streamInsert invocations of the outside caller
MaxUserCalls == 2       \* upsertUser calls
MaxQueryOps == 2        \* query calls started on the uninitialized client
MaxYearSpan == 1        \* generateDateDimension is tried on years FirstYear..FirstYear+MaxYearSpan

\* ------------------------------------------------------- program constants
DefaultMaxRetries == 3
BackoffUnitMs == 1000
NetworksBatchSize == 100
DatesBatchSize == 1000
DefaultStartYear == 2020
DefaultEndYear == 2030

\* Inputs tried for generateDateDimension and for the process's time zone.
FirstYear == DefaultStartYear
TzOffsets == {-5, 0, 9}

VARIABLES
    BQ_DATASET,      \* process.env.BQ_DATASET: <<>> when unset, <<name>> when set
    BQ_MAX_RETRIES,  \* process.env.BQ_MAX_RETRIES: <<>> when unset, <<n>> when set
    GCP_KEY_FILE,    \* process.env.GCP_KEY_FILE: <<>> when unset, <<path>> when set
    vault,           \* what CredentialVault.retrieve yields for the service account
    dataset,         \* BigQueryClient.dataset
    initialized,     \* BigQueryClient.initialized
    credentials,     \* where BigQueryClient.client took its credentials from
    initCount,       \* credential resolutions performed by ensureInitialized
    warehouse,       \* the tables of every existing dataset
    wlog,            \* table.insert requests issued by the running operation
    bi,              \* the running batchInsert call (its locals and position)
    access,          \* metadata.access of the client's dataset: <<>> when absent
    grant,           \* the createReadOnlyUser calls (their locals and position)
    uj,              \* the upsertJob calls (their locals and position)
    tzOffset,        \* hours the process's local time is ahead of UTC
    catalog,         \* what getAllBankingNetworks() returns
    sync,            \* the running syncAll / syncBankingNetworks / generateDateDimension
    si,              \* the streamInsert call of an outside caller
    uu,              \* the upsertUser calls (their locals and position)
    ops,             \* query calls whose initialization is followed await by await
    ld,              \* the loadFromFile call of an outside caller
    ref              \* what the last getDataset / getTable call came to

envVars == <<BQ_DATASET, BQ_MAX_RETRIES, GCP_KEY_FILE, vault>>
clientVars == <<dataset, initialized, credentials, initCount>>
batchVars == <<wlog, bi>>
grantVars == <<access, grant>>
jobVars == <<uj>>
syncVars == <<tzOffset, catalog, sync>>
streamVars == <<si>>
userVars == <<uu>>
opVars == <<ops>>
loadVars == <<ld>>
refVars == <<ref>>
\* What the actions of one operation leave alone besides the environment, the
\* client and the warehouse.
exceptBatch == <<loadVars, refVars, grantVars, jobVars, syncVars, streamVars, userVars, opVars>>
exceptGrant == <<loadVars, refVars, batchVars, jobVars, syncVars, streamVars, userVars, opVars>>
exceptJobs == <<loadVars, refVars, batchVars, grantVars, syncVars, streamVars, userVars, opVars>>
exceptSync == <<loadVars, refVars, grantVars, jobVars, tzOffset, catalog, streamVars, userVars, opVars>>
exceptStream == <<loadVars, refVars, batchVars, grantVars, jobVars, syncVars, userVars, opVars>>
exceptUsers == <<loadVars, refVars, batchVars, grantVars, jobVars, syncVars, streamVars, opVars>>
exceptOps == <<loadVars, refVars, batchVars, grantVars, jobVars, syncVars, streamVars,
               userVars>>
exceptLoad == <<refVars, batchVars, grantVars, jobVars, syncVars, streamVars, userVars,
                opVars>>
exceptRef == <<loadVars, batchVars, grantVars, jobVars, syncVars, streamVars, userVars,
               opVars>>

\* ------------------------------------------------------------ environment
DefaultDataset == "rpa_warehouse"
TableNames == {"fact_rows", "dim_banking_networks", "dim_date", "dim_jobs", "dim_users"}

\* A JavaScript `x || d` on an environment variable.
OrDefault(envVar, d) == IF envVar = <<>> THEN d ELSE envVar[1]

\* A template literal `${process.env.X}`: an unset variable renders "undefined".
Interpolate(envVar) == IF envVar = <<>> THEN "undefined" ELSE envVar[1]

\* constructor: this.dataset = process.env.BQ_DATASET || 'rpa_warehouse'
ConstructorDataset == OrDefault(BQ_DATASET, DefaultDataset)

\* The dataset a SQL statement of DimensionSync names.
SqlDataset == Interpolate(BQ_DATASET)

EmptyTables == [t \in TableNames |-> <<>>]

\* ------------------------------------------------------ ensureInitialized
\* ensureInitialized without the key-file fallback of its inner catch.
EnsureInitializedVaultOnly ==
    IF initialized
    THEN UNCHANGED <<initialized, credentials, initCount>>
    ELSE /\ initCount' = initCount + 1
         /\ IF vault = "credential"
            THEN initialized' = TRUE /\ credentials' = "vault"
            ELSE initialized' = FALSE /\ credentials' = credentials

\* ensureInitialized without the early return of line 42.
EnsureInitializedAgain ==
    /\ initCount' = initCount + 1
    /\ IF vault = "credential"
       THEN initialized' = TRUE /\ credentials' = "vault"
       ELSE IF GCP_KEY_FILE # <<>>
            THEN initialized' = TRUE /\ credentials' = "keyFile"
            ELSE initialized' = FALSE /\ credentials' = credentials

\* The state change of `await this.ensureInitialized()`; the caller reads
\* initialized' to learn whether it threw.
EnsureInitialized ==
    IF initialized
    THEN UNCHANGED <<initialized, credentials, initCount>>
    ELSE /\ initCount' = initCount + 1
         /\ IF vault = "credential"
            THEN initialized' = TRUE /\ credentials' = "vault"
            ELSE IF GCP_KEY_FILE # <<>>
                 THEN initialized' = TRUE /\ credentials' = "keyFile"
                 ELSE initialized' = FALSE /\ credentials' = credentials

\* --------------------------------------- ensureInitialized, await by await
\* query(sql) calls that an outside caller starts without awaiting one before
\* the next. ensureInitialized has one await, of vault.retrieve (line 49); what
\* precedes it and what follows it each run without interruption.
QueryOps == 1..MaxQueryOps

\* A call's position and whether it constructed a BigQuery session.
OpIdle == [pc |-> "idle", constructed |-> FALSE]

\* query(sql) up to its first await: the initialized test of line 42, then
\* either vault.retrieve (line 49) or client.query (line 220)
QueryEnter(p) ==
    /\ ops[p].pc = "idle"
    /\ IF initialized
       THEN /\ ops' = [ops EXCEPT ![p].pc = "query"]
            /\ UNCHANGED initCount
       ELSE /\ ops' = [ops EXCEPT ![p].pc = "retrieve"]
            /\ initCount' = initCount + 1
    /\ UNCHANGED <<envVars, dataset, initialized, credentials, warehouse, exceptOps>>

\* vault.retrieve settles; the session is constructed from the credential or
\* the key file and client.query is issued, or the call throws: lines 49-68, 220
QueryRetrieved(p) ==
    /\ ops[p].pc = "retrieve"
    /\ IF vault = "credential"
       THEN /\ initialized' = TRUE /\ credentials' = "vault"
            /\ ops' = [ops EXCEPT ![p] = [pc |-> "query", constructed |-> TRUE]]
       ELSE IF GCP_KEY_FILE # <<>>
            THEN /\ initialized' = TRUE /\ credentials' = "keyFile"
                 /\ ops' = [ops EXCEPT ![p] = [pc |-> "query", constructed |-> TRUE]]
            ELSE /\ UNCHANGED <<initialized, credentials>>
                 /\ ops' = [ops EXCEPT ![p].pc = "threw"]
    /\ UNCHANGED <<envVars, dataset, initCount, warehouse, exceptOps>>

\* client.query of a read-only statement resolves or rejects: lines 220-225
QuerySettles(p) ==
    /\ ops[p].pc = "query"
    /\ \E outcome \in {"done", "threw"} : ops' = [ops EXCEPT ![p].pc = outcome]
    /\ UNCHANGED <<envVars, clientVars, warehouse, exceptOps>>

\* ------------------------------------------------------------ streamInsert
\* table.insert(rows) accepted by the warehouse: the rows are appended to the
\* table of the client's dataset.
TableInsert(wh, ds, tableName, rows) ==
    [wh EXCEPT ![ds][tableName] = @ \o rows]

\* What streamInsert throws when table.insert rejects: the request's own error,
\* or for a PartialFailureError a new Error('Failed to insert N rows into T'):
\* lines 107-117
InsertErrors == {"request error", "Failed to insert rows"}

\* What table.insert rejects with: an error of the whole request, or a
\* PartialFailureError whose errors array names the rejected rows.
InsertRejections(rows) ==
    {[name |-> "RequestError", errors |-> 0]}
        \cup {[name |-> "PartialFailureError", errors |-> n] : n \in 1..Len(rows)}

\* The catch block of streamInsert: a PartialFailureError becomes
\* new Error(`Failed to insert ${failedRows} rows into ${tableName}`) with
\* failedRows = error.errors?.length || 0, any other error is rethrown as it is.
\* lines 107-117
StreamInsertThrows(rejection, tableName) ==
    IF rejection.name = "PartialFailureError"
    THEN [name |-> "Error", message |-> "Failed to insert rows into",
          failedRows |-> rejection.errors, tableName |-> tableName]
    ELSE rejection

\* The outside caller's streamInsert call: its position, its rows argument
\* (given = FALSE for null or undefined), the table.insert requests it has
\* issued, the rejection it received and the error it threw.
SiIdle ==
    [pc |-> "idle", calls |-> 0, given |-> FALSE, rows |-> <<>>, requests |-> 0,
     rejection |-> <<>>, thrown |-> <<>>]

StreamTable == "fact_rows"

\* streamInsert(tableName, rows) up to its table.insert request: lines 84-104
StreamInsertCall ==
    /\ si.pc = "idle"
    /\ si.calls < MaxStreamCalls
    /\ EnsureInitialized
    /\ \E given \in BOOLEAN, n \in 0..MaxRows :
          /\ given \/ n = 0
          /\ si' = LET call == [SiIdle EXCEPT !.calls = si.calls + 1, !.given = given,
                                             !.rows = [k \in 1..n |-> k]]
                   IN  IF ~initialized'
                       THEN [call EXCEPT !.pc = "threw",
                                 !.thrown = <<[name |-> "CredentialsNotFound",
                                               errors |-> 0]>>]
                       ELSE IF ~given \/ n = 0
                       THEN [call EXCEPT !.pc = "returned"]
                       ELSE [call EXCEPT !.pc = "insert", !.requests = 1]
    /\ UNCHANGED <<envVars, dataset, warehouse, exceptStream>>

\* table.insert resolves: lines 99-106
StreamInsertOk ==
    /\ si.pc = "insert"
    /\ dataset \in DOMAIN warehouse
    /\ warehouse' = TableInsert(warehouse, dataset, StreamTable, si.rows)
    /\ si' = [si EXCEPT !.pc = "returned"]
    /\ UNCHANGED <<envVars, clientVars, exceptStream>>

\* A catch block that issues the request once more before it gives up.
StreamInsertFailsRetries ==
    /\ si.pc = "insert"
    /\ \E rejection \in InsertRejections(si.rows) :
          si' = IF si.requests < 2
                THEN [si EXCEPT !.requests = @ + 1]
                ELSE [si EXCEPT !.pc = "threw", !.rejection = <<rejection>>,
                          !.thrown = <<StreamInsertThrows(rejection, StreamTable)>>]
    /\ UNCHANGED <<envVars, clientVars, warehouse, exceptStream>>

\* table.insert rejects and the catch block throws: lines 107-117
StreamInsertFails ==
    /\ si.pc = "insert"
    /\ \E rejection \in InsertRejections(si.rows) :
          si' = [si EXCEPT !.pc = "threw", !.rejection = <<rejection>>,
                           !.thrown = <<StreamInsertThrows(rejection, StreamTable)>>]
    /\ UNCHANGED <<envVars, clientVars, warehouse, exceptStream>>

\* The caller has the call's outcome and may call again.
StreamCallerResumes ==
    /\ si.pc \in {"returned", "threw"}
    /\ si' = [SiIdle EXCEPT !.calls = si.calls]
    /\ UNCHANGED <<envVars, clientVars, warehouse, exceptStream>>

\* ------------------------------------------------------------ loadFromFile
\* The outside caller's loadFromFile call: its position and the table.load
\* requests it has issued.
LdIdle == [pc |-> "idle", calls |-> 0, requests |-> 0]

\* The rows of the file that is loaded.
FileRows == <<0>>

\* A loadFromFile that goes on to table.load whatever became of the
\* initialization.
LoadFromFileUnchecked ==
    /\ ld.pc = "idle"
    /\ ld.calls < MaxLoadCalls
    /\ EnsureInitialized
    /\ ld' = [pc |-> "load", calls |-> ld.calls + 1, requests |-> 1]
    /\ UNCHANGED <<envVars, dataset, warehouse, exceptLoad>>

\* loadFromFile(tableName, filePath, format) up to its table.load request:
\* lines 183-193
LoadFromFileCall ==
    /\ ld.pc = "idle"
    /\ ld.calls < MaxLoadCalls
    /\ EnsureInitialized
    /\ ld' = IF initialized'
             THEN [pc |-> "load", calls |-> ld.calls + 1, requests |-> 1]
             ELSE [pc |-> "threw", calls |-> ld.calls + 1, requests |-> 0]
    /\ UNCHANGED <<envVars, dataset, warehouse, exceptLoad>>

\* table.load resolves with the load job, whose completion is awaited:
\* lines 193-202
LoadJobStarted ==
    /\ ld.pc = "load"
    /\ ld' = [ld EXCEPT !.pc = "job"]
    /\ UNCHANGED <<envVars, clientVars, warehouse, exceptLoad>>

\* job.promise() resolves: the file's rows were appended (WRITE_APPEND):
\* lines 194-203
LoadJobDone ==
    /\ ld.pc = "job"
    /\ dataset \in DOMAIN warehouse
    /\ warehouse' = TableInsert(warehouse, dataset, StreamTable, FileRows)
    /\ ld' = [ld EXCEPT !.pc = "returned"]
    /\ UNCHANGED <<envVars, clientVars, exceptLoad>>

\* table.load or job.promise() rejects: lines 204-207
LoadFails ==
    /\ ld.pc \in {"load", "job"}
    /\ ld' = [ld EXCEPT !.pc = "threw"]
    /\ UNCHANGED <<envVars, clientVars, warehouse, exceptLoad>>

\* The caller has the call's outcome.
LoadCallerResumes ==
    /\ ld.pc \in {"returned", "threw"}
    /\ ld' = [ld EXCEPT !.pc = "idle", !.requests = 0]
    /\ UNCHANGED <<envVars, clientVars, warehouse, exceptLoad>>

\* --------------------------------------------------- getDataset / getTable
Getters == {"getDataset", "getTable"}

RefNone == [getter |-> "none", outcome |-> "none"]

\* getDataset() / getTable(tableName): a reference, or the Error
\* 'BigQueryClient not initialized...': lines 268-273, 279-284
GetReference(getter) ==
    /\ ref' = [getter |-> getter,
               outcome |-> IF ~initialized THEN "not initialized" ELSE "reference"]
    /\ ref' # ref
    /\ UNCHANGED <<envVars, clientVars, warehouse, exceptRef>>

\* -------------------------------------------------------------- batchInsert
Min(a, b) == IF a < b THEN a ELSE b

\* A slice that is always taken from the start of the rows.
SliceFromStart(rows, from, to) == SubSeq(rows, 1, Min(to - from, Len(rows)))

\* rows.slice(from, to) for 0 <= from
Slice(rows, from, to) == SubSeq(rows, from + 1, Min(to, Len(rows)))

RECURSIVE Pow2(_)
Pow2(n) == IF n <= 0 THEN 1 ELSE 2 * Pow2(n - 1)

\* parseInt(process.env.BQ_MAX_RETRIES || '3')
ParseMaxRetries == OrDefault(BQ_MAX_RETRIES, DefaultMaxRetries)

\* const backoffMs = Math.pow(2, retries) * 1000, retries already incremented
BackoffMs(retries) == Pow2(retries) * BackoffUnitMs

\* while (retries < maxRetries && !success)
WhileCond(b) == b.retries < b.maxRetries /\ ~b.success

\* for (...; i < rows.length; ...)
ForCond(b) == b.i < Len(b.rows)

BiIdle ==
    [pc |-> "idle", caller |-> "none", tableName |-> "none", rows |-> <<>>,
     batchSize |-> 0, maxRetries |-> 0, i |-> 0, batch |-> <<>>, retries |-> 0,
     success |-> FALSE, inserted |-> 0, failed |-> 0, delays |-> <<>>,
     attempts |-> 0, error |-> "none", result |-> <<>>]

\* batchInsert(tableName, rows, batchSize) up to its for loop: lines 134-142
BatchInsertEnter(caller, tableName, rows, batchSize) ==
    /\ bi.pc = "idle"
    /\ EnsureInitialized
    /\ wlog' = <<>>
    /\ bi' = IF ~initialized'
             THEN [BiIdle EXCEPT !.pc = "threw", !.caller = caller,
                       !.tableName = tableName, !.rows = rows, !.batchSize = batchSize]
             ELSE IF Len(rows) = 0
             THEN [BiIdle EXCEPT !.pc = "returned", !.caller = caller,
                       !.tableName = tableName, !.rows = rows, !.batchSize = batchSize,
                       !.result = <<[inserted |-> 0, failed |-> 0]>>]
             ELSE [BiIdle EXCEPT !.pc = "for", !.caller = caller,
                       !.tableName = tableName, !.rows = rows, !.batchSize = batchSize,
                       !.maxRetries = ParseMaxRetries]

\* A caller outside the engine starts batchInsert.
BatchInsertCall ==
    /\ \E n \in 0..MaxRows, batchSize \in 0..MaxBatchSize :
          BatchInsertEnter("caller", "fact_rows", [k \in 1..n |-> k], batchSize)
    /\ UNCHANGED <<envVars, dataset, warehouse, exceptBatch>>

\* query(sql) with a read-only statement, by an outside caller, before its
\* batchInsert: ensureInitialized, then client.query, which changes no table.
\* lines 216-226
QueryCall ==
    /\ bi.pc = "idle"
    /\ initCount < MaxInits
    /\ EnsureInitialized
    /\ UNCHANGED <<envVars, dataset, warehouse, wlog, bi, exceptBatch>>

\* for loop head, body entered: lines 145-148
BiNextChunk ==
    /\ bi.pc = "for"
    /\ ForCond(bi)
    /\ bi' = [bi EXCEPT !.pc = "while",
                        !.batch = Slice(bi.rows, bi.i, bi.i + bi.batchSize),
                        !.retries = 0, !.success = FALSE,
                        !.delays = <<>>, !.attempts = 0, !.error = "none"]
    /\ UNCHANGED <<envVars, clientVars, warehouse, wlog, exceptBatch>>

\* for loop left: lines 171-172
BiReturn ==
    /\ bi.pc = "for"
    /\ ~ForCond(bi)
    /\ bi' = [bi EXCEPT !.pc = "returned",
                        !.result = <<[inserted |-> bi.inserted, failed |-> bi.failed]>>]
    /\ UNCHANGED <<envVars, clientVars, warehouse, wlog, exceptBatch>>

\* BiCatch with the error of an exhausted chunk thrown on to the caller.
BiCatchRethrows(b) ==
    LET r == b.retries + 1 IN
    IF r >= b.maxRetries
    THEN [b EXCEPT !.pc = "threw", !.retries = r]
    ELSE [b EXCEPT !.pc = "sleep", !.retries = r, !.delays = Append(@, BackoffMs(r))]

\* A catch block that gives the chunk up at its first failure.
BiCatchGivesUp(b) ==
    [b EXCEPT !.pc = "while", !.retries = b.maxRetries, !.failed = @ + Len(b.batch)]

\* The catch block of the retry loop: lines 156-167
BiCatch(b) ==
    LET r == b.retries + 1 IN
    IF r >= b.maxRetries
    THEN [b EXCEPT !.pc = "while", !.retries = r, !.failed = @ + Len(b.batch)]
    ELSE [b EXCEPT !.pc = "sleep", !.retries = r, !.delays = Append(@, BackoffMs(r))]

\* The rest of the try block once streamInsert resolved: lines 153-155
BiInserted(b) ==
    [b EXCEPT !.pc = "while", !.inserted = @ + Len(b.batch), !.success = TRUE]

\* while loop head, body entered; streamInsert up to its table.insert:
\* lines 150-152 and 89-99
BiAttempt ==
    /\ bi.pc = "while"
    /\ WhileCond(bi)
    /\ EnsureInitialized
    /\ IF ~initialized'
       THEN /\ bi' = BiCatch([bi EXCEPT !.attempts = @ + 1,
                                         !.error = "BigQuery credentials not found"])
            /\ wlog' = wlog
       ELSE IF Len(bi.batch) = 0
       THEN bi' = BiInserted([bi EXCEPT !.attempts = @ + 1]) /\ wlog' = wlog
       ELSE /\ bi' = [bi EXCEPT !.pc = "insert", !.attempts = @ + 1]
            /\ wlog' = Append(wlog, [dataset |-> dataset, tableName |-> bi.tableName,
                                     from |-> bi.i, rows |-> bi.batch,
                                     outcome |-> "pending"])
    /\ UNCHANGED <<envVars, dataset, warehouse, exceptBatch>>

\* table.insert resolves: lines 99-106, then 153-155
BiInsertOk ==
    /\ bi.pc = "insert"
    /\ dataset \in DOMAIN warehouse
    /\ warehouse' = TableInsert(warehouse, dataset, bi.tableName, bi.batch)
    /\ wlog' = [wlog EXCEPT ![Len(wlog)].outcome = "ok"]
    /\ bi' = BiInserted(bi)
    /\ UNCHANGED <<envVars, clientVars, exceptBatch>>

\* table.insert rejects (a whole-request error, or a PartialFailureError that
\* streamInsert rethrows as a plain Error): lines 107-117, then 156-167
BiInsertFail ==
    /\ bi.pc = "insert"
    /\ wlog' = [wlog EXCEPT ![Len(wlog)].outcome = "rejected"]
    /\ \E error \in InsertErrors : bi' = BiCatch([bi EXCEPT !.error = error])
    /\ UNCHANGED <<envVars, clientVars, warehouse, exceptBatch>>

\* await this.sleep(backoffMs) resolves: line 165
BiWake ==
    /\ bi.pc = "sleep"
    /\ bi' = [bi EXCEPT !.pc = "while"]
    /\ UNCHANGED <<envVars, clientVars, warehouse, wlog, exceptBatch>>

\* while loop left, for loop increment: line 145
BiChunkDone ==
    /\ bi.pc = "while"
    /\ ~WhileCond(bi)
    /\ bi' = [bi EXCEPT !.pc = "for", !.i = @ + bi.batchSize]
    /\ UNCHANGED <<envVars, clientVars, warehouse, wlog, exceptBatch>>

BatchInsertStep ==
    \/ BiNextChunk
    \/ BiReturn
    \/ BiAttempt
    \/ BiInsertOk
    \/ BiInsertFail
    \/ BiWake
    \/ BiChunkDone

\* ------------------------------------------------------ createReadOnlyUser
GrantCalls == 1..MaxGrants
Principals == {"powerbi-readonly", "analyst"}

ViewerBinding(email) ==
    [role |-> "roles/bigquery.dataViewer", members |-> <<[serviceAccount |-> email]>>]
JobUserBinding(email) ==
    [role |-> "roles/bigquery.jobUser", members |-> <<[serviceAccount |-> email]>>]
OwnerBinding == [role |-> "OWNER", members |-> <<[userByEmail |-> "admin"]>>]

\* policy.bindings with the previously read bindings left out.
PolicyBindingsOverwrites(metadataAccess, email) ==
    <<ViewerBinding(email), JobUserBinding(email)>>

\* policy.bindings built on the access list as it is when setMetadata is
\* issued, not on the list read before.
PolicyBindingsMerges(metadataAccess, email) ==
    OrDefault(access, <<>>) \o <<ViewerBinding(email), JobUserBinding(email)>>

\* policy.bindings: lines 242-254
PolicyBindings(metadataAccess, email) ==
    OrDefault(metadataAccess, <<>>) \o <<ViewerBinding(email), JobUserBinding(email)>>

GrantIdle == [pc |-> "idle", email |-> "none", metadata |-> <<>>]

GrantActive == {p \in GrantCalls : grant[p].pc \in {"getMetadata", "setMetadata"}}

\* createReadOnlyUser(email) up to dataset.getMetadata(): lines 235-239
GrantEnter(p, email) ==
    /\ grant[p].pc = "idle"
    /\ EnsureInitialized
    /\ grant' = [grant EXCEPT ![p] =
                    IF initialized'
                    THEN [pc |-> "getMetadata", email |-> email, metadata |-> <<>>]
                    ELSE [pc |-> "threw", email |-> email, metadata |-> <<>>]]
    /\ UNCHANGED <<envVars, dataset, warehouse, exceptGrant, access>>

\* dataset.getMetadata() resolves; dataset.setMetadata() is issued: lines 239-256
GrantGotMetadata(p) ==
    /\ grant[p].pc = "getMetadata"
    /\ grant' = [grant EXCEPT ![p].pc = "setMetadata", ![p].metadata = access]
    /\ UNCHANGED <<envVars, clientVars, warehouse, exceptGrant, access>>

\* dataset.setMetadata({access: policy.bindings}) resolves: lines 256-257
GrantSetMetadata(p) ==
    /\ grant[p].pc = "setMetadata"
    /\ access' = <<PolicyBindings(grant[p].metadata, grant[p].email)>>
    /\ grant' = [grant EXCEPT ![p].pc = "done"]
    /\ UNCHANGED <<envVars, clientVars, warehouse, exceptGrant>>

\* getMetadata or setMetadata rejects: lines 258-261
GrantFails(p) ==
    /\ grant[p].pc \in {"getMetadata", "setMetadata"}
    /\ grant' = [grant EXCEPT ![p].pc = "threw"]
    /\ UNCHANGED <<envVars, clientVars, warehouse, exceptGrant, access>>

\* --------------------------------------------------------------- upsertJob
JobCalls == 1..MaxUpserts
JobIds == {"job-1", "job-2"}

\* The new version upsertJob inserts: lines 92-110 (SCD fields and key only)
NewVersion(jobId) ==
    [job_id |-> jobId, is_current |-> TRUE, effective_from |-> "timestamp",
     effective_to |-> "null"]

\* The UPDATE without its effective_to assignment.
ExpireKeepsEffectiveTo(table, jobId) ==
    [k \in DOMAIN table |->
        IF table[k].job_id = jobId /\ table[k].is_current
        THEN [table[k] EXCEPT !.is_current = FALSE]
        ELSE table[k]]

\* A DELETE of the current versions in place of the UPDATE.
ExpireDeletes(table, jobId) ==
    SelectSeq(table, LAMBDA row : ~(row.job_id = jobId /\ row.is_current))

\* UPDATE dim_jobs SET is_current = FALSE, effective_to = CURRENT_TIMESTAMP()
\* WHERE job_id = '...' AND is_current = TRUE: lines 85-89
ExpireCurrent(table, jobId) ==
    [k \in DOMAIN table |->
        IF table[k].job_id = jobId /\ table[k].is_current
        THEN [table[k] EXCEPT !.is_current = FALSE, !.effective_to = "timestamp"]
        ELSE table[k]]

\* Rows of a table the expire UPDATE matches.
ExpireMatches(table, jobId) ==
    {k \in DOMAIN table : table[k].job_id = jobId /\ table[k].is_current}

\* A call's position, its job.id and the number of rows its expire UPDATE
\* changed (the statement's affected-row count, which the code does not read).
UjIdle == [pc |-> "idle", job_id |-> "none", expired |-> 0]

JobActive == {p \in JobCalls : uj[p].pc \in {"expire", "insert"}}

\* upsertJob(job) up to the client.query of its expire step: lines 80-85, 217-220
UpsertJobEnter(p, jobId) ==
    /\ uj[p].pc = "idle"
    /\ EnsureInitialized
    /\ uj' = [uj EXCEPT ![p] = [pc |-> IF initialized' THEN "expire" ELSE "threw",
                                job_id |-> jobId, expired |-> 0]]
    /\ UNCHANGED <<envVars, dataset, warehouse, exceptJobs>>

\* The expire UPDATE resolves on the dataset the SQL text names; the new version
\* is built and streamInsert issues its table.insert: lines 85-112, 89-99
UpsertExpireOk(p) ==
    /\ uj[p].pc = "expire"
    /\ SqlDataset \in DOMAIN warehouse
    /\ warehouse' = [warehouse EXCEPT ![SqlDataset]["dim_jobs"] =
                        ExpireCurrent(@, uj[p].job_id)]
    /\ uj' = [uj EXCEPT ![p].pc = "insert",
                        ![p].expired = Cardinality(ExpireMatches(
                            warehouse[SqlDataset]["dim_jobs"], uj[p].job_id))]
    /\ UNCHANGED <<envVars, clientVars, exceptJobs>>

\* A rejected expire UPDATE whose error is dropped: the call goes on to insert.
UpsertExpireFailureDropped(p) ==
    /\ uj[p].pc = "expire"
    /\ uj' = [uj EXCEPT ![p].pc = "insert"]
    /\ UNCHANGED <<envVars, clientVars, warehouse, exceptJobs>>

\* The expire UPDATE rejects (always so when the named dataset does not exist):
\* lines 222-225, 114-117
UpsertExpireFails(p) ==
    /\ uj[p].pc = "expire"
    /\ uj' = [uj EXCEPT ![p].pc = "threw"]
    /\ UNCHANGED <<envVars, clientVars, warehouse, exceptJobs>>

\* An insert that expires, in the same step, the versions current at that time.
UpsertInsertSerialized(p) ==
    /\ uj[p].pc = "insert"
    /\ dataset \in DOMAIN warehouse
    /\ warehouse' = TableInsert(
                        [warehouse EXCEPT ![dataset]["dim_jobs"] =
                            ExpireCurrent(@, uj[p].job_id)],
                        dataset, "dim_jobs", <<NewVersion(uj[p].job_id)>>)
    /\ uj' = [uj EXCEPT ![p].pc = "done"]
    /\ UNCHANGED <<envVars, clientVars, exceptJobs>>

\* table.insert([newVersion]) resolves on the client's dataset: lines 99-106, 112-113
UpsertInsertOk(p) ==
    /\ uj[p].pc = "insert"
    /\ dataset \in DOMAIN warehouse
    /\ warehouse' = TableInsert(warehouse, dataset, "dim_jobs",
                                <<NewVersion(uj[p].job_id)>>)
    /\ uj' = [uj EXCEPT ![p].pc = "done"]
    /\ UNCHANGED <<envVars, clientVars, exceptJobs>>

\* table.insert rejects: lines 107-117, 114-117
UpsertInsertFails(p) ==
    /\ uj[p].pc = "insert"
    /\ uj' = [uj EXCEPT ![p].pc = "threw"]
    /\ UNCHANGED <<envVars, clientVars, warehouse, exceptJobs>>

\* -------------------------------------------------------------- upsertUser
UserCalls == 1..MaxUserCalls
UserIds == {"user-1", "user-2"}
\* userData.username: <<>> when absent, <<name>> when given
Usernames == {<<>>, <<"ann">>}

\* userData.username || null, in the row that is inserted
OrNull(field) == IF field = <<>> THEN "null" ELSE field[1]

\* ${userData.username || ''}, in the text of the UPDATE
OrEmpty(field) == IF field = <<>> THEN "" ELSE field[1]

\* The row upsertUser inserts for a user it did not find: lines 160-169
\* (key, one of the attributes, and is_active)
NewUser(userId, username) ==
    [user_id |-> userId, username |-> OrNull(username), is_active |-> TRUE]

\* SELECT user_id FROM dim_users WHERE user_id = '...' LIMIT 1: lines 139-143
ExistingUsers(table, userId) ==
    LET matches == {k \in DOMAIN table : table[k].user_id = userId}
    IN  IF matches = {} THEN <<>>
        ELSE <<[user_id |-> userId]>>

\* UPDATE dim_users SET username = '...', ... WHERE user_id = '...': lines 147-156
UpdateUser(table, userId, username) ==
    [k \in DOMAIN table |->
        IF table[k].user_id = userId
        THEN [table[k] EXCEPT !.username = OrEmpty(username)]
        ELSE table[k]]

\* A call's position, its arguments, and existingUsers.length once the SELECT
\* has resolved.
UuIdle == [pc |-> "idle", user_id |-> "none", username |-> <<>>, existing |-> 0]

UserActive == {p \in UserCalls : uu[p].pc \in {"select", "update", "insert"}}

\* upsertUser(userId, userData) up to the client.query of its SELECT:
\* lines 130-139, 217-220
UpsertUserEnter(p, userId, username) ==
    /\ uu[p].pc = "idle"
    /\ EnsureInitialized
    /\ uu' = [uu EXCEPT ![p] = [pc |-> IF initialized' THEN "select" ELSE "threw",
                                user_id |-> userId, username |-> username,
                                existing |-> 0]]
    /\ UNCHANGED <<envVars, dataset, warehouse, exceptUsers>>

\* The SELECT resolves on the dataset the SQL text names, and the call issues
\* the UPDATE or, through streamInsert, the table.insert: lines 139-147, 160-171
UserSelectOk(p) ==
    /\ uu[p].pc = "select"
    /\ SqlDataset \in DOMAIN warehouse
    /\ LET existingUsers == ExistingUsers(warehouse[SqlDataset]["dim_users"],
                                          uu[p].user_id)
       IN  uu' = [uu EXCEPT ![p].pc = IF Len(existingUsers) > 0 THEN "update"
                                      ELSE "insert",
                            ![p].existing = Len(existingUsers)]
    /\ UNCHANGED <<envVars, clientVars, warehouse, exceptUsers>>

\* The SELECT rejects (always so when the named dataset does not exist):
\* lines 222-225, 174-177
UserSelectFails(p) ==
    /\ uu[p].pc = "select"
    /\ uu' = [uu EXCEPT ![p].pc = "threw"]
    /\ UNCHANGED <<envVars, clientVars, warehouse, exceptUsers>>

\* The UPDATE resolves on the dataset the SQL text names: lines 147-158
UserUpdateOk(p) ==
    /\ uu[p].pc = "update"
    /\ SqlDataset \in DOMAIN warehouse
    /\ warehouse' = [warehouse EXCEPT ![SqlDataset]["dim_users"] =
                        UpdateUser(@, uu[p].user_id, uu[p].username)]
    /\ uu' = [uu EXCEPT ![p].pc = "done"]
    /\ UNCHANGED <<envVars, clientVars, exceptUsers>>

\* The UPDATE rejects: lines 222-225, 174-177
UserUpdateFails(p) ==
    /\ uu[p].pc = "update"
    /\ uu' = [uu EXCEPT ![p].pc = "threw"]
    /\ UNCHANGED <<envVars, clientVars, warehouse, exceptUsers>>

\* An insert that looks for the user again in the step that inserts.
UserInsertIfAbsent(p) ==
    /\ uu[p].pc = "insert"
    /\ dataset \in DOMAIN warehouse
    /\ warehouse' = IF ExistingUsers(warehouse[dataset]["dim_users"],
                                     uu[p].user_id) = <<>>
                    THEN TableInsert(warehouse, dataset, "dim_users",
                                     <<NewUser(uu[p].user_id, uu[p].username)>>)
                    ELSE warehouse
    /\ uu' = [uu EXCEPT ![p].pc = "done"]
    /\ UNCHANGED <<envVars, clientVars, exceptUsers>>

\* table.insert([newUser]) resolves on the client's dataset: lines 99-106, 171-172
UserInsertOk(p) ==
    /\ uu[p].pc = "insert"
    /\ dataset \in DOMAIN warehouse
    /\ warehouse' = TableInsert(warehouse, dataset, "dim_users",
                                <<NewUser(uu[p].user_id, uu[p].username)>>)
    /\ uu' = [uu EXCEPT ![p].pc = "done"]
    /\ UNCHANGED <<envVars, clientVars, exceptUsers>>

\* table.insert rejects: lines 107-117, 174-177
UserInsertFails(p) ==
    /\ uu[p].pc = "insert"
    /\ uu' = [uu EXCEPT ![p].pc = "threw"]
    /\ UNCHANGED <<envVars, clientVars, warehouse, exceptUsers>>

\* ------------------------------------------------------- JavaScript Date
\* A Date is its time value, counted here in hours since 1970-01-01T00:00Z;
\* the process's local time is UTC + tzOffset hours (a zone with a fixed offset).
FloorDiv(a, b) == IF a >= 0 THEN a \div b ELSE -((-a + b - 1) \div b)

\* Days since 1970-01-01 of the civil date year-month-day (month 1..12).
DaysFromCivil(year, month, day) ==
    LET y == IF month <= 2 THEN year - 1 ELSE year
        era == FloorDiv(y, 400)
        yoe == y - era * 400
        mp == IF month > 2 THEN month - 3 ELSE month + 9
        doy == (153 * mp + 2) \div 5 + day - 1
        doe == yoe * 365 + yoe \div 4 - yoe \div 100 + doy
    IN  era * 146097 + doe - 719468

\* The civil date of a day number.
CivilFromDays(days) ==
    LET z == days + 719468
        era == FloorDiv(z, 146097)
        doe == z - era * 146097
        yoe == (doe - doe \div 1460 + doe \div 36524 - doe \div 146096) \div 365
        doy == doe - (365 * yoe + yoe \div 4 - yoe \div 100)
        mp == (5 * doy + 2) \div 153
        d == doy - (153 * mp + 2) \div 5 + 1
        m == IF mp < 10 THEN mp + 3 ELSE mp - 9
    IN  [year |-> (yoe + era * 400) + (IF m <= 2 THEN 1 ELSE 0), month |-> m, day |-> d]

\* new Date(year, monthIndex, day): local midnight of that date
LocalDate(year, monthIndex, day, tz) ==
    DaysFromCivil(year, monthIndex + 1, day) * 24 - tz

LocalDay(t, tz) == FloorDiv(t + tz, 24)
GetFullYear(t, tz) == CivilFromDays(LocalDay(t, tz)).year
GetMonth(t, tz) == CivilFromDays(LocalDay(t, tz)).month - 1
GetDate(t, tz) == CivilFromDays(LocalDay(t, tz)).day
\* 1970-01-01 was a Thursday (4); Sunday is 0
GetDay(t, tz) == (LocalDay(t, tz) + 4) % 7

\* d.setDate(n): the n-th day counted from the 1st of d's local month, at d's
\* local time of day
SetDate(t, n, tz) ==
    LET c == CivilFromDays(LocalDay(t, tz))
    IN  (DaysFromCivil(c.year, c.month, 1) + n - 1) * 24 + ((t + tz) % 24) - tz

\* toISOString().split('T')[0]: the UTC calendar date
IsoDate(t) == CivilFromDays(FloorDiv(t, 24))

MonthNames ==
    <<"January", "February", "March", "April", "May", "June", "July", "August",
      "September", "October", "November", "December">>
DayNames ==
    <<"Sunday", "Monday", "Tuesday", "Wednesday", "Thursday", "Friday", "Saturday">>

\* ----------------------------------------------------------- getWeekNumber
\* dayNum without `|| 7`: Sunday stays 0.
WeekDayNumberSundayZero(utcDay) == utcDay

\* const dayNum = d.getUTCDay() || 7: line 244
WeekDayNumber(utcDay) == IF utcDay = 0 THEN 7 ELSE utcDay

\* getWeekNumber(date): lines 238-254
GetWeekNumber(t, tz) ==
    LET d0 == DaysFromCivil(GetFullYear(t, tz), GetMonth(t, tz) + 1, GetDate(t, tz))
        dayNum == WeekDayNumber((d0 + 4) % 7)
        d == d0 + 4 - dayNum
        yearStart == DaysFromCivil(CivilFromDays(d).year, 1, 1)
    IN  ((d - yearStart) + 1 + 6) \div 7

\* --------------------------------------------------- generateDateDimension
\* d.getMonth() >= 9 ? d.getFullYear() + 1 : d.getFullYear(): line 211
FiscalYear(getFullYear, getMonth) ==
    IF getMonth >= 9 THEN getFullYear + 1 ELSE getFullYear

\* The calendar quarter in place of the fiscal one.
FiscalQuarterUnshifted(getMonth) == (getMonth \div 3) + 1

\* Math.floor((d.getMonth() + 3) % 12 / 3) + 1: line 212
FiscalQuarter(getMonth) == (((getMonth + 3) % 12) \div 3) + 1

\* The row pushed onto `dates` for the loop's date d = t; every column is
\* computed from d alone: lines 197-213
DateRow(t, tz) ==
    LET getFullYear == GetFullYear(t, tz)
        getMonth == GetMonth(t, tz)
        getDate == GetDate(t, tz)
        getDay == GetDay(t, tz)
    IN  [date_key |-> IsoDate(t),
         year |-> getFullYear,
         quarter |-> (getMonth \div 3) + 1,
         month |-> getMonth + 1,
         month_name |-> MonthNames[getMonth + 1],
         week |-> GetWeekNumber(t, tz),
         day_of_month |-> getDate,
         day_of_week |-> getDay,
         day_name |-> DayNames[getDay + 1],
         is_weekend |-> (getDay = 0 \/ getDay = 6),
         is_holiday |-> FALSE,
         fiscal_year |-> FiscalYear(getFullYear, getMonth),
         fiscal_quarter |-> FiscalQuarter(getMonth)]

\* The loop condition with the last day left out.
DateLoopCondExclusive(d, end) == d < end

\* d <= end: line 196
DateLoopCond(d, end) == d <= end

\* One pass of for (let d = new Date(start); d <= end; d.setDate(d.getDate() + 1))
\* over the loop state st = [d, dates]. `dates` keeps, for each pushed row, the
\* time value of the d it was built from; the row is DateRow of it: lines 196-214
DateLoopBody(st, end, tz) ==
    IF DateLoopCond(st.d, end)
    THEN [d |-> SetDate(st.d, GetDate(st.d, tz) + 1, tz),
          dates |-> Append(st.dates, st.d)]
    ELSE st

\* At most n passes of the loop from st, the passes composed pairwise so that
\* the evaluation nests only log n deep.
RECURSIVE DateLoop(_, _, _, _)
DateLoop(n, st, end, tz) ==
    IF n = 0 \/ ~DateLoopCond(st.d, end) THEN st
    ELSE IF n = 1 THEN DateLoopBody(st, end, tz)
    ELSE DateLoop(n - n \div 2, DateLoop(n \div 2, st, end, tz), end, tz)

\* const dates = ...: lines 191-214
GenerateDates(startYear, endYear, tz) ==
    DateLoop(MaxLoopPasses,
             [d |-> LocalDate(startYear, 0, 1, tz), dates |-> <<>>],
             LocalDate(endYear, 11, 31, tz), tz)

\* ------------------------------------- syncBankingNetworks, syncAll, calls
SyncIdle ==
    [pc |-> "idle", top |-> "none", calls |-> 0, rows |-> <<>>,
     startYear |-> 0, endYear |-> 0, dates |-> <<>>]

\* networks.map(...): lines 43-56 (the key of each row only)
NetworkRows == [k \in DOMAIN catalog |-> [network_id |-> catalog[k]]]

\* A DELETE that removes nothing.
DeleteNone(wh, ds, tableName) == wh

\* DELETE FROM `<dataset>.<table>` WHERE TRUE: lines 59, 219
DeleteAll(wh, ds, tableName) == [wh EXCEPT ![ds][tableName] = <<>>]

\* syncBankingNetworks() up to the client.query of its DELETE: lines 35-59, 217-220
SyncNetworksBegin(top) ==
    /\ EnsureInitialized
    /\ sync' = [sync EXCEPT !.pc = IF initialized' THEN "net.delete" ELSE "threw",
                            !.top = top, !.calls = @ + 1,
                            !.rows = NetworkRows, !.dates = <<>>]

\* generateDateDimension(startYear, endYear) up to the client.query of its
\* DELETE: lines 187-219, 217-220
GenerateDateBegin(top, calls, startYear, endYear) ==
    LET loop == GenerateDates(startYear, endYear, tzOffset) IN
    /\ ~DateLoopCond(loop.d, LocalDate(endYear, 11, 31, tzOffset))
    /\ EnsureInitialized
    /\ sync' = [sync EXCEPT !.pc = IF initialized' THEN "date.delete" ELSE "threw",
                            !.top = top, !.calls = calls,
                            !.startYear = startYear, !.endYear = endYear,
                            !.dates = loop.dates]

\* An outside caller calls syncBankingNetworks().
SyncNetworksCall ==
    /\ sync.pc = "idle"
    /\ sync.calls < MaxSyncCalls
    /\ SyncNetworksBegin("syncBankingNetworks")
    /\ UNCHANGED <<envVars, dataset, warehouse, batchVars, exceptSync>>

\* An outside caller calls syncAll(): lines 260-263
SyncAllCall ==
    /\ sync.pc = "idle"
    /\ sync.calls = 0
    /\ SyncNetworksBegin("syncAll")
    /\ UNCHANGED <<envVars, dataset, warehouse, batchVars, exceptSync>>

\* An outside caller calls generateDateDimension(startYear, endYear).
GenerateDateCall ==
    /\ sync.pc = "idle"
    /\ sync.calls = 0
    /\ \E startYear \in FirstYear..(FirstYear + MaxYearSpan) :
       \E endYear \in startYear..(FirstYear + MaxYearSpan) :
          GenerateDateBegin("generateDateDimension", 1, startYear, endYear)
    /\ UNCHANGED <<envVars, dataset, warehouse, batchVars, exceptSync>>

\* The DELETE of dim_banking_networks resolves on the dataset the SQL text
\* names; with rows to write, batchInsert is entered: lines 59-67
NetDeleteOk ==
    /\ sync.pc = "net.delete"
    /\ SqlDataset \in DOMAIN warehouse
    /\ warehouse' = DeleteAll(warehouse, SqlDataset, "dim_banking_networks")
    /\ IF Len(sync.rows) > 0
       THEN /\ BatchInsertEnter("syncBankingNetworks", "dim_banking_networks",
                                sync.rows, NetworksBatchSize)
            /\ sync' = [sync EXCEPT !.pc = "net.insert"]
       ELSE /\ sync' = [sync EXCEPT !.pc = "net.returned"]
            /\ UNCHANGED <<initialized, credentials, initCount, batchVars>>
    /\ UNCHANGED <<envVars, dataset, exceptSync>>

\* The DELETE rejects (always so when the named dataset does not exist); the
\* error passes through the catch blocks to the caller: lines 68-71, 266-269
NetDeleteFails ==
    /\ sync.pc = "net.delete"
    /\ sync' = [sync EXCEPT !.pc = "threw"]
    /\ UNCHANGED <<envVars, clientVars, warehouse, batchVars, exceptSync>>

\* batchInsert settled; its result is dropped: lines 63-64
NetInsertSettles ==
    /\ sync.pc = "net.insert"
    /\ bi.pc \in {"returned", "threw"}
    /\ sync' = [sync EXCEPT !.pc = IF bi.pc = "returned" THEN "net.returned" ELSE "threw"]
    /\ bi' = BiIdle
    /\ UNCHANGED <<envVars, clientVars, warehouse, wlog, exceptSync>>

\* syncBankingNetworks() returned to an outside caller.
NetReturnsToCaller ==
    /\ sync.pc = "net.returned"
    /\ sync.top = "syncBankingNetworks"
    /\ sync' = [sync EXCEPT !.pc = "done"]
    /\ UNCHANGED <<envVars, clientVars, warehouse, batchVars, exceptSync>>

\* syncBankingNetworks() returned to syncAll, which calls
\* generateDateDimension() with its default years: lines 263-264, 187
NetReturnsToSyncAll ==
    /\ sync.pc = "net.returned"
    /\ sync.top = "syncAll"
    /\ GenerateDateBegin("syncAll", sync.calls, DefaultStartYear, DefaultEndYear)
    /\ UNCHANGED <<envVars, dataset, warehouse, batchVars, exceptSync>>

\* The DELETE of dim_date resolves; batchInsert is entered: lines 219-223
DateDeleteOk ==
    /\ sync.pc = "date.delete"
    /\ SqlDataset \in DOMAIN warehouse
    /\ warehouse' = DeleteAll(warehouse, SqlDataset, "dim_date")
    /\ BatchInsertEnter("generateDateDimension", "dim_date", sync.dates, DatesBatchSize)
    /\ sync' = [sync EXCEPT !.pc = "date.insert"]
    /\ UNCHANGED <<envVars, dataset, exceptSync>>

\* The DELETE of dim_date rejects: lines 225-228, 266-269
DateDeleteFails ==
    /\ sync.pc = "date.delete"
    /\ sync' = [sync EXCEPT !.pc = "threw"]
    /\ UNCHANGED <<envVars, clientVars, warehouse, batchVars, exceptSync>>

\* batchInsert settled; generateDateDimension (and syncAll, if it is the
\* caller) returns: lines 223-224, 265
DateInsertSettles ==
    /\ sync.pc = "date.insert"
    /\ bi.pc \in {"returned", "threw"}
    /\ sync' = [sync EXCEPT !.pc = IF bi.pc = "returned" THEN "done" ELSE "threw"]
    /\ bi' = BiIdle
    /\ UNCHANGED <<envVars, clientVars, warehouse, wlog, exceptSync>>

\* The outside caller goes on after its call returned or threw.
SyncCallerResumes ==
    /\ sync.pc \in {"done", "threw"}
    /\ sync.top = "syncBankingNetworks"
    /\ sync' = [sync EXCEPT !.pc = "idle", !.rows = <<>>]
    /\ UNCHANGED <<envVars, clientVars, warehouse, batchVars, exceptSync>>

\* Between two calls somebody edits dim_banking_networks by hand: a row is
\* added or the first row is removed.
ManualRow == [network_id |-> "manual"]

ManualEdit ==
    /\ sync.pc = "idle"
    /\ sync.calls > 0
    /\ LET table == warehouse[dataset]["dim_banking_networks"] IN
       \E edited \in {Append(table, ManualRow)} \cup
                      (IF Len(table) > 0 THEN {Tail(table)} ELSE {}) :
          /\ Len(edited) <= MaxNetworks + 1
          /\ warehouse' = [warehouse EXCEPT ![dataset]["dim_banking_networks"] = edited]
    /\ UNCHANGED <<envVars, clientVars, batchVars, exceptSync, sync>>

\* ------------------------------------------------------------------- Init
EnvValuesDataset == {<<>>, <<"analytics">>}
EnvValuesMaxRetries == {<<>>} \cup {<<n>> : n \in 0..MaxEnvRetries}
EnvValuesKeyFile == {<<>>, <<"key.json">>}
VaultStates == {"credential", "missing", "malformed"}

InitEnv ==
    /\ BQ_DATASET \in EnvValuesDataset
    /\ BQ_MAX_RETRIES \in EnvValuesMaxRetries
    /\ GCP_KEY_FILE \in EnvValuesKeyFile
    /\ vault \in VaultStates

InitClient ==
    /\ dataset = ConstructorDataset
    /\ initialized = FALSE
    /\ credentials = "none"
    /\ initCount = 0

\* The client's dataset exists and its tables are empty; a dataset that happens
\* to be called "undefined" may exist beside it.
InitWarehouse ==
    \E others \in SUBSET {"undefined"} :
        warehouse = [ds \in {ConstructorDataset} \cup others |-> EmptyTables]

\* The dataset's access list before the first grant: absent, empty, or holding
\* the owner's binding.
InitAccess == access \in {<<>>, <<(<<>>)>>, <<(<<OwnerBinding>>)>>}

Init ==
    /\ InitEnv
    /\ InitClient
    /\ InitWarehouse
    /\ wlog = <<>>
    /\ bi = BiIdle
    /\ InitAccess
    /\ grant = [p \in GrantCalls |-> GrantIdle]
    /\ uj = [p \in JobCalls |-> UjIdle]
    /\ tzOffset \in TzOffsets
    /\ catalog \in {[k \in 1..n |-> k] : n \in 0..MaxNetworks}
    /\ sync = SyncIdle
    /\ si = SiIdle
    /\ uu = [p \in UserCalls |-> UuIdle]
    /\ ops = [p \in QueryOps |-> OpIdle]
    /\ ld = LdIdle
    /\ ref = RefNone

vars == <<BQ_DATASET, BQ_MAX_RETRIES, GCP_KEY_FILE, vault, dataset, initialized,
          credentials, initCount, warehouse, wlog, bi, access, grant, uj,
          tzOffset, catalog, sync, si, uu, ops, ld, ref>>

\* Settings that the operations a specification runs never read are held at
\* one value in it.
NoPolicy == access = <<>>
NoCatalog == catalog = <<>>
UtcZone == tzOffset = 0
\* The vault holds the credential or does not, and no key file is named.
VaultOnly == GCP_KEY_FILE = <<>> /\ vault # "malformed"
DefaultRetries == BQ_MAX_RETRIES = <<>>
\* BQ_DATASET is unset and the default dataset is the only one.
DefaultDatasetOnly == BQ_DATASET = <<>> /\ DOMAIN warehouse = {DefaultDataset}

InitBatch == Init /\ NoPolicy /\ NoCatalog /\ UtcZone
InitUsersSeq == Init /\ NoPolicy /\ NoCatalog /\ UtcZone /\ DefaultRetries
InitUsers == Init /\ NoPolicy /\ NoCatalog /\ UtcZone /\ DefaultRetries /\ VaultOnly
InitQueries == Init /\ NoPolicy /\ NoCatalog /\ UtcZone /\ DefaultRetries
InitClientUse ==
    Init /\ NoPolicy /\ NoCatalog /\ UtcZone /\ DefaultRetries /\ DefaultDatasetOnly
InitStream == Init /\ NoPolicy /\ NoCatalog /\ UtcZone /\ DefaultRetries
InitGrantSeq == Init /\ NoCatalog /\ UtcZone
InitGrant == Init /\ NoCatalog /\ UtcZone /\ DefaultRetries
InitJobsSeq == Init /\ NoPolicy /\ NoCatalog /\ UtcZone
InitJobs == Init /\ NoPolicy /\ NoCatalog /\ UtcZone /\ DefaultRetries
InitSync == Init /\ NoPolicy /\ UtcZone
InitDate == Init /\ NoPolicy /\ NoCatalog /\ VaultOnly /\ DefaultRetries
InitSyncAll == Init /\ NoPolicy /\ UtcZone /\ VaultOnly /\ DefaultRetries

\* One batchInsert call by an outside caller, on a client that earlier queries
\* may or may not have initialized.
NextBatch ==
    \/ QueryCall
    \/ BatchInsertCall
    \/ BatchInsertStep

SpecBatch == InitBatch /\ [][NextBatch]_vars

\* The same, with the event loop running the call's pending continuation
\* (a settled promise or an expired timer) whenever there is one.
SpecBatchFair == SpecBatch /\ WF_vars(BatchInsertStep)

\* query calls that may overlap, on a new client.
NextQueries ==
    \/ \E p \in QueryOps : QueryEnter(p)
    \/ \E p \in QueryOps : QueryRetrieved(p)
    \/ \E p \in QueryOps : QuerySettles(p)

SpecQueries == InitQueries /\ [][NextQueries]_vars

\* Some operation of the client is between its call and its outcome.
ClientBusy ==
    \/ si.pc \notin {"idle"}
    \/ ld.pc \notin {"idle"}
    \/ GrantActive # {}
    \/ \E p \in QueryOps : ops[p].pc \in {"retrieve", "query"}

\* An outside caller uses one client for a streamInsert, a loadFromFile, a
\* query and a createReadOnlyUser call, in any order and awaiting each before
\* the next, and asks for dataset and table references in between.
NextClientUse ==
    \/ ~ClientBusy /\ si.calls = 0 /\ StreamInsertCall
    \/ StreamInsertOk
    \/ StreamInsertFails
    \/ StreamCallerResumes
    \/ ~ClientBusy /\ LoadFromFileCall
    \/ LoadJobStarted
    \/ LoadJobDone
    \/ LoadFails
    \/ LoadCallerResumes
    \/ \E p \in QueryOps :
          ~ClientBusy /\ (\A q \in QueryOps : ops[q].pc = "idle") /\ QueryEnter(p)
    \/ \E p \in QueryOps : QueryRetrieved(p)
    \/ \E p \in QueryOps : QuerySettles(p)
    \/ \E p \in GrantCalls, email \in Principals :
          ~ClientBusy /\ (\A q \in GrantCalls : grant[q].pc = "idle") /\ GrantEnter(p, email)
    \/ \E p \in GrantCalls : GrantGotMetadata(p)
    \/ \E p \in GrantCalls : GrantSetMetadata(p)
    \/ \E p \in GrantCalls : GrantFails(p)
    \/ \E getter \in Getters : ~ClientBusy /\ GetReference(getter)

SpecClientUse == InitClientUse /\ [][NextClientUse]_vars

\* streamInsert calls of an outside caller, one after the other.
NextStream ==
    \/ StreamInsertCall
    \/ StreamInsertOk
    \/ StreamInsertFails
    \/ StreamCallerResumes

SpecStream == InitStream /\ [][NextStream]_vars

\* upsertUser calls one after the other: a call starts only when no other call
\* is in flight.
NextUsersSeq ==
    \/ \E p \in UserCalls, userId \in UserIds, username \in Usernames :
          UserActive = {} /\ UpsertUserEnter(p, userId, username)
    \/ \E p \in UserCalls : UserSelectOk(p)
    \/ \E p \in UserCalls : UserSelectFails(p)
    \/ \E p \in UserCalls : UserUpdateOk(p)
    \/ \E p \in UserCalls : UserUpdateFails(p)
    \/ \E p \in UserCalls : UserInsertOk(p)
    \/ \E p \in UserCalls : UserInsertFails(p)

SpecUsersSeq == InitUsersSeq /\ [][NextUsersSeq]_vars

\* upsertUser calls that may overlap: a call may start while others are between
\* their awaits.
NextUsers ==
    \/ \E p \in UserCalls, userId \in UserIds, username \in Usernames :
          UpsertUserEnter(p, userId, username)
    \/ \E p \in UserCalls : UserSelectOk(p)
    \/ \E p \in UserCalls : UserSelectFails(p)
    \/ \E p \in UserCalls : UserUpdateOk(p)
    \/ \E p \in UserCalls : UserUpdateFails(p)
    \/ \E p \in UserCalls : UserInsertOk(p)
    \/ \E p \in UserCalls : UserInsertFails(p)

SpecUsers == InitUsers /\ [][NextUsers]_vars

\* createReadOnlyUser calls one after the other: a call starts only when no
\* other call is in flight.
NextGrantSeq ==
    \/ \E p \in GrantCalls, email \in Principals :
          GrantActive = {} /\ GrantEnter(p, email)
    \/ \E p \in GrantCalls : GrantGotMetadata(p)
    \/ \E p \in GrantCalls : GrantSetMetadata(p)
    \/ \E p \in GrantCalls : GrantFails(p)

SpecGrantSeq == InitGrantSeq /\ [][NextGrantSeq]_vars

\* createReadOnlyUser calls that may overlap.
NextGrant ==
    \/ \E p \in GrantCalls, email \in Principals : GrantEnter(p, email)
    \/ \E p \in GrantCalls : GrantGotMetadata(p)
    \/ \E p \in GrantCalls : GrantSetMetadata(p)
    \/ \E p \in GrantCalls : GrantFails(p)

SpecGrant == InitGrant /\ [][NextGrant]_vars

\* upsertJob calls one after the other: a call starts only when no other call
\* is in flight.
NextJobsSeq ==
    \/ \E p \in JobCalls, jobId \in JobIds :
          JobActive = {} /\ UpsertJobEnter(p, jobId)
    \/ \E p \in JobCalls : UpsertExpireOk(p)
    \/ \E p \in JobCalls : UpsertExpireFails(p)
    \/ \E p \in JobCalls : UpsertInsertOk(p)
    \/ \E p \in JobCalls : UpsertInsertFails(p)

SpecJobsSeq == InitJobsSeq /\ [][NextJobsSeq]_vars

\* upsertJob calls that may overlap: a call may start while others are between
\* their awaits.
NextJobs ==
    \/ \E p \in JobCalls, jobId \in JobIds : UpsertJobEnter(p, jobId)
    \/ \E p \in JobCalls : UpsertExpireOk(p)
    \/ \E p \in JobCalls : UpsertExpireFails(p)
    \/ \E p \in JobCalls : UpsertInsertOk(p)
    \/ \E p \in JobCalls : UpsertInsertFails(p)

SpecJobs == InitJobs /\ [][NextJobs]_vars

\* syncBankingNetworks calls one after the other, with manual edits of the
\* table between them.
NextSync ==
    \/ SyncNetworksCall
    \/ NetDeleteOk
    \/ NetDeleteFails
    \/ BatchInsertStep
    \/ NetInsertSettles
    \/ NetReturnsToCaller
    \/ SyncCallerResumes
    \/ ManualEdit

SpecSync == InitSync /\ [][NextSync]_vars

\* One generateDateDimension(startYear, endYear) call.
NextDate ==
    \/ GenerateDateCall
    \/ DateDeleteOk
    \/ DateDeleteFails
    \/ BatchInsertStep
    \/ DateInsertSettles

SpecDate == InitDate /\ [][NextDate]_vars

\* One syncAll() call.
NextSyncAll ==
    \/ SyncAllCall
    \/ NetDeleteOk
    \/ NetDeleteFails
    \/ NetInsertSettles
    \/ NetReturnsToSyncAll
    \/ DateDeleteOk
    \/ DateDeleteFails
    \/ BatchInsertStep
    \/ DateInsertSettles

SpecSyncAll == InitSyncAll /\ [][NextSyncAll]_vars

\* ------------------------------------------------------- batchInsert claims
\* Offsets at which batchInsert cuts its chunks.
ChunkStarts(b) ==
    IF b.batchSize <= 0 THEN {}
    ELSE {s \in 0..(Len(b.rows) - 1) : s % b.batchSize = 0}

ChunkLen(b, s) == Len(Slice(b.rows, s, s + b.batchSize))

AttemptsOf(s) == {k \in 1..Len(wlog) : wlog[k].from = s}

\* Chunks that were attempted and whose every attempt was rejected.
ExhaustedChunks(b) ==
    {s \in ChunkStarts(b) :
        /\ AttemptsOf(s) # {}
        /\ \A k \in AttemptsOf(s) : wlog[k].outcome = "rejected"}

RECURSIVE SumLen(_, _)
SumLen(b, S) ==
    IF S = {} THEN 0
    ELSE LET s == CHOOSE x \in S : TRUE IN ChunkLen(b, s) + SumLen(b, S \ {s})

\* C1: the result batchInsert returns satisfies
\* inserted + failed = number of rows submitted.
C1_InsertedPlusFailed ==
    bi.pc = "returned" =>
        bi.result[1].inserted + bi.result[1].failed = Len(bi.rows)

\* C2: between chunks and at the return, failed is exactly the total length of
\* the chunks whose every attempt was rejected; every chunk after such a chunk
\* has been attempted by the time the call returns; and a call that reached its
\* loop never ends by raising.
C2_FailedChunkIsolated ==
    /\ bi.pc \in {"for", "returned"} =>
          bi.failed = SumLen(bi, ExhaustedChunks(bi))
    /\ bi.pc = "returned" =>
          /\ bi.result[1].failed = bi.failed
          /\ \A s \in ExhaustedChunks(bi) :
                \A t \in ChunkStarts(bi) : t > s => AttemptsOf(t) # {}
    /\ wlog # <<>> => bi.pc # "threw"

\* C2 witness: the call returned after a chunk exhausted its attempts and a
\* later chunk was inserted.
C2_Witness ==
    /\ bi.pc = "returned"
    /\ \E s \in ExhaustedChunks(bi) :
          \E k \in 1..Len(wlog) : wlog[k].from > s /\ wlog[k].outcome = "ok"

\* C3: the k-th backoff delay slept for a chunk is 2^(k-1) seconds: 1000 ms,
\* 2000 ms, 4000 ms, ...
C3_BackoffFromOneSecond ==
    \A k \in 1..Len(bi.delays) : bi.delays[k] = Pow2(k - 1) * 1000

\* C4: batchInsert called with no rows returns {inserted: 0, failed: 0}, raises
\* nothing and issues no warehouse request, whatever the state of the client.
C4_EmptyRowsReturnsZero ==
    (bi.pc \in {"returned", "threw"} /\ Len(bi.rows) = 0) =>
        /\ bi.pc = "returned"
        /\ bi.result = <<[inserted |-> 0, failed |-> 0]>>
        /\ wlog = <<>>

\* ------------------------------------------------ createReadOnlyUser claims
\* C6: a createReadOnlyUser call that runs without interleaving writes the
\* binding list it read, unchanged and in order, followed by exactly the viewer
\* and the job-user binding of its principal: the list grows by exactly two.
C6_GrantStrictlyAdditive ==
    [][\A p \in GrantCalls :
          (grant[p].pc = "setMetadata" /\ grant'[p].pc = "done") =>
              LET before == OrDefault(access, <<>>)
                  after == OrDefault(access', <<>>)
              IN  /\ access' # <<>>
                  /\ Len(after) = Len(before) + 2
                  /\ SubSeq(after, 1, Len(before)) = before
                  /\ after[Len(before) + 1] = ViewerBinding(grant[p].email)
                  /\ after[Len(before) + 2] = JobUserBinding(grant[p].email)]_vars

\* C6 witness: a second grant completed on a list that held the owner's binding
\* and the first grant's two bindings.
C6_Witness ==
    /\ \A p \in GrantCalls : grant[p].pc = "done"
    /\ access # <<>>
    /\ Len(access[1]) = 1 + 2 * MaxGrants
    /\ access[1][1] = OwnerBinding

\* --------------------------------------------------------- upsertJob claims
\* Rows of dim_jobs, in the dataset the client writes to, that are current
\* versions of jobId.
CurrentRows(jobId) ==
    {k \in DOMAIN warehouse[dataset]["dim_jobs"] :
        /\ warehouse[dataset]["dim_jobs"][k].job_id = jobId
        /\ warehouse[dataset]["dim_jobs"][k].is_current}

CallsFor(jobId) == {p \in JobCalls : uj[p].pc # "idle" /\ uj[p].job_id = jobId}

\* C5: once every upsertJob call made so far for a job_id has completed (the
\* calls ran one after the other and each returned normally), dim_jobs holds
\* exactly one row with is_current = true for that job_id.
C5_ExactlyOneCurrent ==
    \A jobId \in JobIds :
        (CallsFor(jobId) # {} /\ \A p \in CallsFor(jobId) : uj[p].pc = "done")
            => Cardinality(CurrentRows(jobId)) = 1

\* ----------------------------------------------- syncBankingNetworks claims
\* dim_banking_networks in the dataset the client writes to.
NetworksTable == warehouse[dataset]["dim_banking_networks"]

\* C7: whenever a syncBankingNetworks call returns normally, the first or the
\* second of two consecutive calls and whatever the table held before it
\* (manual edits between the calls included), dim_banking_networks holds
\* exactly as many rows as the catalog has entries.
C7_FullRefreshLeavesCatalog ==
    (sync.top = "syncBankingNetworks" /\ sync.pc = "done") =>
        Len(NetworksTable) = Len(catalog)

\* --------------------------------------------- generateDateDimension claims
LeapYear(y) == (y % 4 = 0 /\ y % 100 # 0) \/ y % 400 = 0
DaysInYear(y) == IF LeapYear(y) THEN 366 ELSE 365

RECURSIVE DaysInYears(_, _)
DaysInYears(startYear, endYear) ==
    IF startYear > endYear THEN 0
    ELSE DaysInYear(startYear) + DaysInYears(startYear + 1, endYear)

\* The rows of `dates` have just been generated.
DatesGenerated == sync.pc = "date.delete" /\ sync.top = "generateDateDimension"

IsoWeek(day) ==
    LET monday == day - ((day + 3) % 7)
        isoYear == CivilFromDays(monday + 3).year
        jan4 == DaysFromCivil(isoYear, 1, 4)
        firstMonday == jan4 - ((jan4 + 3) % 7)
    IN  (monday - firstMonday) \div 7 + 1

\* C9: the week column of every generated row is the ISO-8601 week number of
\* the row's date and lies within 1..53; 2021-01-01 gets week 53.
C9_WeekIsIsoWeek ==
    DatesGenerated =>
        \A k \in DOMAIN sync.dates :
            LET row == DateRow(sync.dates[k], tzOffset) IN
            /\ row.week = IsoWeek(DaysFromCivil(row.year, row.month, row.day_of_month))
            /\ row.week \in 1..53
            /\ (row.year = 2021 /\ row.month = 1 /\ row.day_of_month = 1)
                  => row.week = 53

\* C9 witness: the rows of 2021 were generated; the first, 2021-01-01, has
\* week 53 and the fourth, Monday 2021-01-04, has week 1.
C9_Witness ==
    /\ DatesGenerated
    /\ sync.startYear = 2021
    /\ DateRow(sync.dates[1], tzOffset).day_name = "Friday"
    /\ DateRow(sync.dates[1], tzOffset).week = 53
    /\ DateRow(sync.dates[4], tzOffset).week = 1

\* ------------------------------------------------------------ syncAll claims
\* syncBankingNetworks had rows to write and none of its insert requests was
\* accepted.
NetworkRowsUnwritten ==
    /\ Len(sync.rows) > 0
    /\ \A k \in 1..Len(wlog) :
          wlog[k].tableName = "dim_banking_networks" => wlog[k].outcome = "rejected"

RetryUnderWay ==
    \/ bi.pc \in {"sleep", "insert"}
    \/ bi.pc = "while" /\ WhileCond(bi)

\* C11: a chunk whose insert was rejected for invalid rows (streamInsert raised
\* the error it makes of a PartialFailureError) is not attempted again: no
\* backoff is slept and no further insert request is issued for it.
C11_PartialFailureNotRetried ==
    bi.error = "Failed to insert rows" => ~RetryUnderWay

\* ------------------------------------------------ overlapping upsertJob calls
Done(jobId) == {p \in CallsFor(jobId) : uj[p].pc = "done"}

RECURSIVE SumExpired(_)
SumExpired(P) ==
    IF P = {} THEN 0
    ELSE LET p == CHOOSE x \in P : TRUE IN uj[p].expired + SumExpired(P \ {p})

\* Two calls for the same job that both completed and whose expire steps
\* both found no current row: each ran its expire before the other inserted.
BothExpiredBeforeEitherInserted(p, q) ==
    /\ p # q
    /\ uj[p].pc = "done" /\ uj[q].pc = "done"
    /\ uj[p].job_id = uj[q].job_id
    /\ uj[p].expired = 0 /\ uj[q].expired = 0

\* C12: upsertJob calls are not serialized. The current rows of a job_id are
\* the versions inserted by its completed calls less the rows its calls' expire
\* steps changed, so two overlapping calls that both expire before either
\* inserts leave both their versions current.
C12_OverlapLeavesTwoCurrent ==
    /\ \A jobId \in JobIds :
          Cardinality(CurrentRows(jobId)) =
              Cardinality(Done(jobId)) - SumExpired(CallsFor(jobId))
    /\ \A p, q \in JobCalls :
          (BothExpiredBeforeEitherInserted(p, q) /\ CallsFor(uj[p].job_id) = {p, q})
              => Cardinality(CurrentRows(uj[p].job_id)) = 2

\* C12 witness: with BQ_DATASET set, two calls for one job_id overlapped, both
\* returned, and dim_jobs holds two current rows for it.
C12_Witness ==
    /\ BQ_DATASET # <<>>
    /\ \E p, q \in JobCalls :
          /\ BothExpiredBeforeEitherInserted(p, q)
          /\ Cardinality(CurrentRows(uj[p].job_id)) > 1

\* ---------------------------------------- overlapping createReadOnlyUser calls
Range(seq) == {seq[k] : k \in DOMAIN seq}

\* The access list holds both bindings of a principal.
HasGrant(email) ==
    /\ access # <<>>
    /\ ViewerBinding(email) \in Range(access[1])
    /\ JobUserBinding(email) \in Range(access[1])

\* The only calls made are p and q, for different principals; both returned
\* successfully and both had read the policy before either wrote it.
BothReadBeforeEitherWrote(p, q) ==
    /\ p # q
    /\ grant[p].pc = "done" /\ grant[q].pc = "done"
    /\ grant[p].email # grant[q].email
    /\ grant[p].metadata = grant[q].metadata
    /\ \A r \in GrantCalls \ {p, q} : grant[r].pc = "idle"

\* C13: grants are not transactional. When two overlapping calls for different
\* principals both read the policy before either writes it, both return
\* successfully and the final binding list lacks the bindings of one of them.
C13_OverlapLosesGrant ==
    \A p, q \in GrantCalls :
        BothReadBeforeEitherWrote(p, q) =>
            \E r \in {p, q} :
                /\ ~HasGrant(grant[r].email)
                /\ access # <<>>
                /\ ViewerBinding(grant[r].email) \notin Range(access[1])
                /\ JobUserBinding(grant[r].email) \notin Range(access[1])

\* C13 witness: two overlapped grants returned; the list holds the owner's
\* binding and the bindings of one principal only.
C13_Witness ==
    \E p, q \in GrantCalls :
        /\ BothReadBeforeEitherWrote(p, q)
        /\ HasGrant(grant[q].email)
        /\ ~HasGrant(grant[p].email)
        /\ Len(access[1]) = 3
        /\ access[1][1] = OwnerBinding

\* ------------------------------------------------- dim_jobs row invariants
\* C14: with upsertJob calls running one after the other, in every state (also
\* between a call's expire and insert steps and after a call in which a step
\* failed) dim_jobs holds at most one row with is_current = true per job_id.
C14_AtMostOneCurrent ==
    \A jobId \in JobIds : Cardinality(CurrentRows(jobId)) <= 1

\* Every dim_jobs row of every dataset.
AllJobRows ==
    UNION {Range(warehouse[ds]["dim_jobs"]) : ds \in DOMAIN warehouse}

\* C15: in every state, overlapping upsertJob calls included, every dim_jobs
\* row written by upsertJob has effective_to = null exactly when
\* is_current = true.
C15_EffectiveToNullIffCurrent ==
    \A row \in AllJobRows : (row.effective_to = "null") <=> row.is_current

\* C15 witness: dim_jobs holds an expired version, with effective_to set, and
\* a current version of the same job.
C15_Witness ==
    \E old, new \in AllJobRows :
        /\ old.job_id = new.job_id
        /\ ~old.is_current /\ old.effective_to = "timestamp"
        /\ new.is_current /\ new.effective_to = "null"

\* ---------------------------------------------------------- date_key claims
\* C16: the date_key values of the generated rows are, in order, the calendar
\* dates from Jan 1 of startYear to Dec 31 of endYear, each once, whatever the
\* time zone of the process.
C16_DateKeysContiguous ==
    DatesGenerated =>
        /\ Len(sync.dates) = DaysInYears(sync.startYear, sync.endYear)
        /\ \A k \in DOMAIN sync.dates :
              DateRow(sync.dates[k], tzOffset).date_key =
                  CivilFromDays(DaysFromCivil(sync.startYear, 1, 1) + k - 1)

\* ------------------------------------------------------ initialization claims
\* A usable credential can be had from the vault or through a key file.
CredentialAvailable == vault = "credential" \/ GCP_KEY_FILE # <<>>

\* C17: initialization fails exactly when the vault yields no usable credential
\* and GCP_KEY_FILE is unset; the operation that triggered it then raises to
\* its caller having made one resolution and no insert attempt, backoff or
\* further resolution; and a credential from the vault is used even when a key
\* file is named.
C17_InitFailsWithoutCredential ==
    /\ [](/\ initCount > 0 => (initialized <=> CredentialAvailable)
          /\ initialized =>
                credentials = (IF vault = "credential" THEN "vault" ELSE "keyFile")
          /\ bi.pc # "idle" => (bi.pc = "threw" <=> ~CredentialAvailable)
          /\ bi.pc = "threw" =>
                /\ ~initialized
                /\ bi.attempts = 0 /\ bi.delays = <<>> /\ wlog = <<>>)
    /\ [][initCount' \in {initCount, initCount + 1}]_vars

\* C17 witness: batchInsert raised on a client whose vault entry is unusable
\* and that has no key file.
C17_Witness ==
    /\ bi.pc = "threw"
    /\ vault = "malformed" /\ GCP_KEY_FILE = <<>>
    /\ initCount = 1

\* C18: the constructor resolves no credential, and once the client is
\* initialized no step resolves credentials or sets the session up again.
C18_LazyIdempotentInit ==
    /\ initCount = 0 /\ ~initialized /\ credentials = "none"
    /\ [][initialized =>
            /\ initialized'
            /\ initCount' = initCount
            /\ credentials' = credentials]_vars

\* C18 witness: one credential resolution served a whole batchInsert call that
\* issued several insert requests.
C18_Witness ==
    /\ initialized /\ initCount = 1
    /\ bi.pc = "returned"
    /\ Len(wlog) >= 2

\* ------------------------------------------------------ chunk order claims
\* C19: the insert requests of one batchInsert call are issued one at a time
\* and chunk by chunk in input order: only the latest request can be
\* outstanding, the first request is for the first chunk, each request is for
\* the chunk of the request before it or, once that chunk was accepted or was
\* rejected maxRetries times, for the chunk that follows it; and a chunk is
\* given up only after the backoff delays between its attempts were slept.
C19_ChunksInOrderOneAtATime ==
    /\ \A k \in 1..Len(wlog) :
          wlog[k].outcome = "pending" => (k = Len(wlog) /\ bi.pc = "insert")
    /\ bi.pc = "insert" => (wlog # <<>> /\ wlog[Len(wlog)].outcome = "pending")
    /\ wlog # <<>> => wlog[1].from = 0
    /\ \A k \in 1..(Len(wlog) - 1) :
          \/ /\ wlog[k + 1].from = wlog[k].from
             /\ wlog[k].outcome = "rejected"
          \/ /\ wlog[k + 1].from = wlog[k].from + bi.batchSize
             /\ bi.batchSize > 0
             /\ \/ wlog[k].outcome = "ok"
                \/ /\ Cardinality(AttemptsOf(wlog[k].from)) = bi.maxRetries
                   /\ \A j \in AttemptsOf(wlog[k].from) : wlog[j].outcome = "rejected"
    /\ (bi.pc = "while" /\ ~WhileCond(bi) /\ ~bi.success /\ bi.attempts > 0) =>
          Len(bi.delays) = bi.maxRetries - 1

\* C19 witness: the first chunk was rejected on two attempts and given up,
\* then the second chunk was attempted, and the call returned.
C19_Witness ==
    /\ bi.pc = "returned"
    /\ Len(wlog) >= 3
    /\ wlog[1].from = 0 /\ wlog[1].outcome = "rejected"
    /\ wlog[2].from = 0 /\ wlog[2].outcome = "rejected"
    /\ wlog[3].from > 0

\* -------------------------------------------------------- termination claims
BatchInsertEnded == bi.pc \in {"returned", "threw"}

\* C20: batchInsert makes at most maxRetries insert attempts per chunk, and
\* every call, whatever its rows, its batchSize and the outcomes of its insert
\* requests, comes to an end.
C20_TerminatesWithinMaxRetries ==
    /\ [](/\ bi.attempts <= bi.maxRetries
          /\ \A s \in ChunkStarts(bi) : Cardinality(AttemptsOf(s)) <= bi.maxRetries)
    /\ (bi.pc # "idle") ~> BatchInsertEnded


C22_EmptyStreamInsertSucceeds ==
    (si.pc \in {"returned", "threw"} /\ (~si.given \/ Len(si.rows) = 0))
        => (si.pc = "returned" /\ si.requests = 0 /\ si.thrown = <<>>)


\* ------------------------------------------------------------ upsertUser calls
\* Rows of dim_users, in the client's dataset, for one user_id.
UserRows(userId) ==
    {k \in DOMAIN warehouse[dataset]["dim_users"] :
        warehouse[dataset]["dim_users"][k].user_id = userId}

UserCallsFor(userId) == {p \in UserCalls : uu[p].user_id = userId}

\* Calls for a user_id that returned successfully.
UserDone(userId) == {p \in UserCallsFor(userId) : uu[p].pc = "done"}

\* Calls for a user_id that returned after inserting a row.
UserInserted(userId) == {p \in UserDone(userId) : uu[p].existing = 0}

\* C23: after sequential upsertUser calls dim_users holds at most one row per
\* user_id: a user_id with a successful call has exactly one row, with
\* is_active = true, inserted by the first of them; a later call finds it.
C23_OneRowPerUser ==
    \A userId \in UserIds :
        /\ Cardinality(UserRows(userId)) <= 1
        /\ (UserActive = {} /\ UserDone(userId) # {})
              => /\ Cardinality(UserRows(userId)) = 1
                 /\ Cardinality(UserInserted(userId)) = 1
                 /\ \A k \in UserRows(userId) :
                       warehouse[dataset]["dim_users"][k].is_active

\* Two calls for one user_id that both returned and whose SELECTs both found
\* no row: each looked before the other inserted.
BothSelectedBeforeEitherInserted(p, q) ==
    /\ p # q
    /\ uu[p].pc = "done" /\ uu[q].pc = "done"
    /\ uu[p].user_id = uu[q].user_id
    /\ uu[p].existing = 0 /\ uu[q].existing = 0

\* C24: upsertUser calls are not serialized. Every call that finds no row
\* inserts one, so two overlapping calls for one new user_id that both look
\* before either inserts leave two rows for it.
C24_OverlapInsertsTwice ==
    /\ \A userId \in UserIds :
          Cardinality(UserRows(userId)) = Cardinality(UserInserted(userId))
    /\ \A p, q \in UserCalls :
          (BothSelectedBeforeEitherInserted(p, q)
                /\ UserCallsFor(uu[p].user_id) = {p, q})
              => Cardinality(UserRows(uu[p].user_id)) = 2

\* C24 witness: with BQ_DATASET set, two calls for one user_id overlapped, both
\* returned, and dim_users holds two rows for it.
C24_Witness ==
    /\ BQ_DATASET # <<>>
    /\ \E p, q \in UserCalls :
          /\ BothSelectedBeforeEitherInserted(p, q)
          /\ Cardinality(UserRows(uu[p].user_id)) = 2


\* ------------------------------------------------------------- fiscal columns
\* The fiscal quarter of each calendar month, January first: the fiscal year
\* starts on October 1.
FiscalQuarterOfMonth == <<2, 2, 2, 3, 3, 3, 4, 4, 4, 1, 1, 1>>

\* C25: in every generated row fiscal_year is year + 1 for October-December
\* and year otherwise, fiscal_quarter is 1 for Oct-Dec, 2 for Jan-Mar, 3 for
\* Apr-Jun and 4 for Jul-Sep; from one row to the next fiscal_year changes
\* exactly when fiscal_quarter goes from 4 to 1, by one, on October 1.
C25_FiscalYearStartsInOctober ==
    DatesGenerated =>
        /\ \A k \in DOMAIN sync.dates :
              LET row == DateRow(sync.dates[k], tzOffset)
              IN  /\ row.fiscal_year = IF row.month \in 10..12 THEN row.year + 1
                                        ELSE row.year
                  /\ row.fiscal_quarter = FiscalQuarterOfMonth[row.month]
        /\ \A k \in 1..(Len(sync.dates) - 1) :
              LET row == DateRow(sync.dates[k], tzOffset)
                  next == DateRow(sync.dates[k + 1], tzOffset)
                  wraps == row.fiscal_quarter = 4 /\ next.fiscal_quarter = 1
              IN  /\ (next.fiscal_year # row.fiscal_year) <=> wraps
                  /\ wraps <=> (next.month = 10 /\ next.day_of_month = 1)
                  /\ wraps => next.fiscal_year = row.fiscal_year + 1

\* C25 witness: the generated rows hold September 30 and October 1 of 2020,
\* in fiscal years 2020 and 2021.
C25_Witness ==
    /\ DatesGenerated
    /\ \E k \in 1..(Len(sync.dates) - 1) :
          LET row == DateRow(sync.dates[k], tzOffset)
              next == DateRow(sync.dates[k + 1], tzOffset)
          IN  /\ row.year = 2020 /\ row.month = 9 /\ row.day_of_month = 30
              /\ row.fiscal_year = 2020 /\ row.fiscal_quarter = 4
              /\ next.year = 2020 /\ next.month = 10 /\ next.day_of_month = 1
              /\ next.fiscal_year = 2021 /\ next.fiscal_quarter = 1


\* ------------------------------------------------------ upsertJob keeps history
\* The calls that take a step.
JobMovers == {p \in JobCalls : uj'[p] # uj[p]}

\* Row k of a dim_jobs table is after the step what it was before, or it was
\* the current version of the job of a call at its expire step and has been
\* closed: nothing but is_current and effective_to differs.
JobRowKept(old, new, k) ==
    \/ new[k] = old[k]
    \/ /\ old[k].is_current
       /\ \E p \in JobMovers : uj[p].pc = "expire" /\ uj[p].job_id = old[k].job_id
       /\ new[k] = [old[k] EXCEPT !.is_current = FALSE, !.effective_to = "timestamp"]

\* C26: upsertJob never deletes a dim_jobs row. In every step each row that
\* was present is still present, at most closed (is_current, effective_to) and
\* then only as the current row of the stepping call's job_id; a table grows
\* only in the step in which a call succeeds, by that call's one new version.
C26_UpsertJobKeepsHistory ==
    [][\A ds \in DOMAIN warehouse :
          LET old == warehouse[ds]["dim_jobs"]
              new == warehouse'[ds]["dim_jobs"]
              succeeded == {p \in JobMovers : uj'[p].pc = "done"}
          IN  /\ Len(new) >= Len(old)
              /\ \A k \in DOMAIN old : JobRowKept(old, new, k)
              /\ Len(new) = Len(old) + (IF ds = dataset THEN Cardinality(succeeded)
                                        ELSE 0)
              /\ Cardinality(succeeded) <= 1
              /\ \A p \in succeeded :
                    ds = dataset =>
                        /\ new[Len(new)] = NewVersion(uj[p].job_id)
                        /\ SubSeq(new, 1, Len(old)) = old]_vars

\* C26 witness: after three successful calls, two of them for one job_id,
\* dim_jobs holds that job's closed first version, its current version and
\* the other job's current version.
C26_Witness ==
    /\ BQ_DATASET # <<>>
    /\ \A p \in JobCalls : uj[p].pc = "done"
    /\ LET table == warehouse[dataset]["dim_jobs"]
       IN  /\ Len(table) = 3
           /\ \E i, j, k \in DOMAIN table :
                 /\ table[i].job_id = table[j].job_id
                 /\ ~table[i].is_current /\ table[i].effective_to = "timestamp"
                 /\ table[j].is_current
                 /\ table[k].job_id # table[i].job_id /\ table[k].is_current


\* ------------------------------------------------------ full refresh failures
\* Chunks of the last batchInsert that were attempted and whose every attempt
\* was rejected.
WlogExhausted ==
    {s \in {wlog[k].from : k \in DOMAIN wlog} :
        \A k \in AttemptsOf(s) : wlog[k].outcome = "rejected"}

\* C27: a full refresh whose reinsert step had a chunk exhaust its retries
\* does not return normally: neither syncBankingNetworks (to syncAll) nor
\* generateDateDimension (through syncAll, to its caller).
C27_ExhaustedChunkPropagates ==
    (sync.pc \in {"net.returned", "done"}) => WlogExhausted = {}

\* ------------------------------------------------- delete, then reinsert
NetworkTables(wh) == [ds \in DOMAIN wh |-> wh[ds]["dim_banking_networks"]]

\* C28: syncBankingNetworks deletes, then reinserts, in separate steps. The
\* step in which the DELETE completes leaves the table it names empty with no
\* insert request issued yet; rows are added only later, by the insert
\* requests of the reinsert step; a step in which no insert request is
\* accepted leaves the table as it was (empty, if it was empty); and when the
\* DELETE fails the call throws with every table as it was and no request
\* issued, then or later.
C28_DeleteThenReinsert ==
    [][/\ (sync.pc = "net.delete" /\ sync'.pc \in {"net.insert", "net.returned"})
            => /\ warehouse'[SqlDataset]["dim_banking_networks"] = <<>>
               /\ wlog' = <<>>
       /\ (sync.pc = "net.delete" /\ sync'.pc = "threw")
            => warehouse' = warehouse /\ wlog' = wlog
       /\ sync.pc = "threw" => (warehouse' = warehouse /\ wlog' = wlog)
       /\ (sync.pc # "idle" /\ NetworkTables(warehouse') # NetworkTables(warehouse))
            => \/ sync.pc = "net.delete"
               \/ /\ sync.pc = "net.insert" /\ bi.pc = "insert"
                  /\ NetworkTables(warehouse') =
                        [NetworkTables(warehouse) EXCEPT ![dataset] = @ \o bi.batch]
      ]_vars

\* C28 witness: with BQ_DATASET set and a catalog of two networks, a second
\* refresh has deleted the rows and its insert request is in flight: the table
\* is empty.
C28_Witness ==
    /\ BQ_DATASET # <<>>
    /\ Len(catalog) = 2
    /\ sync.calls = 2
    /\ sync.pc = "net.insert" /\ bi.pc = "insert"
    /\ NetworksTable = <<>>

\* ------------------------------------------------------- one dataset per call
\* C29: once an operation has issued its SQL step, the dataset that step
\* names is the dataset its insert step writes to, with BQ_DATASET set or
\* unset (the default dataset when unset).
C29_SqlAndInsertSameDataset ==
    /\ (\E p \in JobCalls : uj[p].pc \in {"expire", "insert", "done"})
          => SqlDataset = dataset
    /\ (\E p \in UserCalls : uu[p].pc \in {"select", "update", "insert", "done"})
          => SqlDataset = dataset
    /\ sync.pc \in {"net.delete", "net.insert", "net.returned", "date.delete",
                     "date.insert", "done"}
          => SqlDataset = dataset

\* ------------------------------------------------- concurrent initialization
\* The calls that constructed a session.
SessionsConstructed == {p \in QueryOps : ops[p].constructed}

\* C30: on a client whose credential can be resolved, calls started
\* concurrently before it is initialized resolve the credential once and
\* construct one session.
C30_InitializedAtMostOnce ==
    /\ Cardinality(SessionsConstructed) <= 1
    /\ vault = "credential" => initCount <= 1


\* ------------------------------------------------- no request before a session
\* A request to the warehouse is outstanding: an insert, a load or its job, a
\* query, a policy read or write.
RequestOutstanding ==
    \/ si.pc = "insert"
    \/ ld.pc \in {"load", "job"}
    \/ GrantActive # {}
    \/ \E p \in QueryOps : ops[p].pc = "query"

\* An operation of the client is called in this step.
OperationStarts ==
    \/ si.pc = "idle" /\ si'.pc # "idle"
    \/ ld.pc = "idle" /\ ld'.pc # "idle"
    \/ \E p \in GrantCalls : grant[p].pc = "idle" /\ grant'[p].pc # "idle"
    \/ \E p \in QueryOps : ops[p].pc = "idle" /\ ops'[p].pc # "idle"

\* An operation throws in this step without a request of its having been
\* outstanding.
ThrowsBeforeRequest ==
    \/ si.pc = "idle" /\ si'.pc = "threw"
    \/ ld.pc = "idle" /\ ld'.pc = "threw"
    \/ \E p \in GrantCalls : grant[p].pc = "idle" /\ grant'[p].pc = "threw"
    \/ \E p \in QueryOps : ops[p].pc = "retrieve" /\ ops'[p].pc = "threw"

\* C31: a client whose initialization has not succeeded issues no warehouse
\* request. While it is uninitialized no request is outstanding, no table and
\* no policy changes, and getDataset / getTable raise 'not initialized'; an
\* initialization that finds no credential leaves it uninitialized and makes
\* the operation throw with no request issued; and every operation called on
\* the uninitialized client resolves the credential anew.
C31_NoRequestBeforeInitialized ==
    /\ [](/\ RequestOutstanding => initialized
          /\ ~CredentialAvailable => ~initialized
          /\ (si.pc = "threw" /\ ~initialized) => si.requests = 0
          /\ (ld.pc = "threw" /\ ~initialized) => ld.requests = 0)
    /\ [][/\ ~initialized' => (warehouse' = warehouse /\ access' = access)
          /\ ref' # ref =>
                (ref'.outcome = "not initialized" <=> ~initialized)
          /\ (OperationStarts /\ ~initialized) => initCount' = initCount + 1
          /\ (OperationStarts /\ ~initialized /\ ~CredentialAvailable) =>
                (~initialized' /\ ~RequestOutstanding')
          /\ ThrowsBeforeRequest => (~initialized' /\ ~CredentialAvailable)]_vars

\* C31 witness: on a client with no credential a first operation threw, then
\* getTable raised 'not initialized', then streamInsert resolved the
\* credential a second time and threw without a request.
C31_Witness ==
    /\ ~initialized /\ initCount = 2
    /\ ref = [getter |-> "getTable", outcome |-> "not initialized"]
    /\ si.pc = "threw" /\ si.requests = 0
    /\ ld.calls = 1


\* ------------------------------------------------------ date_key and columns
\* C32: in every generated row the calendar date that date_key denotes has
\* the year, month and day of the row's year, month and day_of_month columns,
\* whatever the time zone of the process.
C32_DateKeyMatchesColumns ==
    DatesGenerated =>
        \A k \in DOMAIN sync.dates :
            LET row == DateRow(sync.dates[k], tzOffset)
            IN  /\ row.date_key.year = row.year
                /\ row.date_key.month = row.month
                /\ row.date_key.day = row.day_of_month


\* ------------------------------------------------------- expire, then insert
JobTables(wh) == [ds \in DOMAIN wh |-> wh[ds]["dim_jobs"]]

\* C33: upsertJob expires, then inserts. A call issues its insert only in the
\* step in which its expire UPDATE completes, having closed the current rows
\* of its job_id; when the UPDATE fails the call throws in that step with
\* every table as it was, and a call that threw does nothing more; a row is
\* added to dim_jobs only by the insert of a call that went through its expire.
C33_ExpireThenInsert ==
    [][/\ \A p \in JobCalls :
             /\ (uj[p].pc # "insert" /\ uj'[p].pc = "insert") =>
                   /\ uj[p].pc = "expire"
                   /\ JobTables(warehouse') =
                         [JobTables(warehouse) EXCEPT
                             ![SqlDataset] = ExpireCurrent(@, uj[p].job_id)]
             /\ (uj[p].pc = "expire" /\ uj'[p].pc = "threw") => warehouse' = warehouse
             /\ (uj[p].pc = "expire" /\ uj'[p].pc # "expire") =>
                   uj'[p].pc \in {"insert", "threw"}
             /\ uj[p].pc = "threw" => uj'[p] = uj[p]
             /\ (uj[p].pc # "done" /\ uj'[p].pc = "done") => uj[p].pc = "insert"
       /\ \A ds \in DOMAIN warehouse :
             Len(warehouse'[ds]["dim_jobs"]) # Len(warehouse[ds]["dim_jobs"]) =>
                 \E p \in JobCalls :
                     /\ uj[p].pc = "insert" /\ uj'[p].pc = "done"
                     /\ ds = dataset
                     /\ warehouse'[ds]["dim_jobs"] =
                           Append(warehouse[ds]["dim_jobs"], NewVersion(uj[p].job_id))
      ]_vars

\* C33 witness: with BQ_DATASET set, a call for a job_id whose one version is
\* still current has thrown: its expire UPDATE failed, nothing was inserted
\* and the row is as it was.
C33_Witness ==
    /\ BQ_DATASET # <<>>
    /\ initialized
    /\ warehouse[dataset]["dim_jobs"] = <<NewVersion("job-1")>>
    /\ \E p, q \in JobCalls :
          /\ uj[p] = [pc |-> "done", job_id |-> "job-1", expired |-> 0]
          /\ uj[q] = [pc |-> "threw", job_id |-> "job-1", expired |-> 0]
          /\ \A r \in JobCalls \ {p, q} : uj[r].pc = "idle"


\* ----------------------------------------------------------- chunks and attempts
\* The n rows (fewer at the end of the input) that follow the first s rows.
RowsFrom(rows, s, n) ==
    [k \in 1..(IF Len(rows) - s < n THEN Len(rows) - s ELSE n) |-> rows[s + k]]

\* Insert requests issued for the chunk at offset s, and those accepted.
Accepted(s) == {k \in AttemptsOf(s) : wlog[k].outcome = "ok"}
Rejected(s) == {k \in AttemptsOf(s) : wlog[k].outcome = "rejected"}

\* C34: batchInsert cuts its input into contiguous slices of batchSize rows
\* in input order, the last possibly shorter, that together are the input:
\* the first chunk starts at the first row, each chunk is the rows that follow
\* the chunk before it, and the call returns only past the last row. Every
\* attempt for a chunk submits that slice; at most one attempt per chunk is
\* accepted and it is the chunk's last; a backoff delay is slept after each
\* rejected attempt except the maxRetries-th, after which (as after an
\* accepted attempt) the chunk gets no further attempt.
C34_ChunksAreSlices ==
    /\ [](/\ bi.pc \in {"while", "insert", "sleep"} =>
                /\ bi.i < Len(bi.rows)
                /\ bi.batch = RowsFrom(bi.rows, bi.i, bi.batchSize)
          /\ \A k \in DOMAIN wlog :
                /\ wlog[k].rows = RowsFrom(bi.rows, wlog[k].from, bi.batchSize)
                /\ wlog[k].rows # <<>>
                /\ wlog[k].outcome = "ok" =>
                      \A j \in AttemptsOf(wlog[k].from) : j <= k
                /\ Cardinality(Accepted(wlog[k].from)) <= 1
                /\ Cardinality(AttemptsOf(wlog[k].from)) <= bi.maxRetries
          /\ (bi.pc \in {"while", "insert", "sleep"} /\ bi.batchSize > 0) =>
                LET rejected == Cardinality(Rejected(bi.i))
                IN  /\ Len(bi.delays) = IF rejected > 0 /\ rejected >= bi.maxRetries
                                        THEN rejected - 1 ELSE rejected
                    /\ (bi.success \/ rejected >= bi.maxRetries) =>
                          (bi.pc = "while" /\ ~WhileCond(bi))
                    /\ bi.success <=> Accepted(bi.i) # {}
          /\ (bi.pc = "returned" /\ Len(bi.rows) > 0) => bi.i >= Len(bi.rows))
    /\ [][/\ (bi.pc = "idle" /\ bi'.pc = "for") => bi'.i = 0
          /\ (bi.pc = "while" /\ bi'.pc = "for") =>
                /\ bi'.i >= bi.i + Len(bi.batch)
                /\ bi'.i = bi.i + Len(bi.batch) \/ bi.i + Len(bi.batch) = Len(bi.rows)
          /\ (bi.pc = "for" /\ bi'.pc = "for") => bi' = bi
          /\ bi.pc \in {"while", "insert", "sleep"} =>
                (bi'.i = bi.i \/ bi'.pc = "for")]_vars

\* C34 witness: three rows in chunks of two; the first chunk was accepted at
\* its first attempt, the second, of one row, has been rejected maxRetries = 2
\* times with one backoff delay between the attempts and none after.
C34_Witness ==
    /\ Len(bi.rows) = 3 /\ bi.batchSize = 2 /\ bi.maxRetries = 2
    /\ bi.pc = "while" /\ ~WhileCond(bi)
    /\ bi.i = 2 /\ bi.batch = <<3>>
    /\ Cardinality(AttemptsOf(0)) = 1 /\ Cardinality(Accepted(0)) = 1
    /\ Cardinality(Rejected(2)) = 2
    /\ Len(bi.delays) = 1


====
